---- MODULE Spec2Model ----
(***************************************************************************)
(* The native workflow scheduler of flyteadmin                             *)
(* (scheduler/executor/workflow_executor.go): boot from the latest         *)
(* snapshot, catch up on missed instants, then reconcile the schedule set  *)
(* into the cron registry while live ticks fire executions and a           *)
(* background checkpointer persists the watermark table.                   *)
(*                                                                         *)
(* Instants are minutes counted from an epoch; 0 is Go's zero time.Time.   *)
(* A schedule's identity {project, domain, name, version} is its id.       *)
(***************************************************************************)
EXTENDS Integers, Sequences, FiniteSets, TLC

\* ------------------------------------------------------------------ state
VARIABLES
    now,          \* the wall clock
    db,           \* schedule repository: id -> [active, updatedAt, expr]
    executions,   \* the executions the admin service has created
    persisted,    \* the latest row of the snapshot repository
    events,       \* environment events so far: faults, restarts, API calls
    pc,           \* where the executor's main goroutine stands
    snapshot,     \* w.snapshot: the watermark table
    bootSnapshot, \* the table readSnapShot produced at construction
    schedules,    \* the slice Run read last
    catchUpTill,  \* toTime of the catch-up
    cuIdx,        \* index of the schedule CatchUpAllSchedules is at
    cuTimes,      \* the catchUpTimes CatchUpSingleSchedule still has to fire
    fireLog,      \* <<id, instant>> of every fire call of the catch-up
    jobsMap,      \* the cron registry: id -> job handle
    inflight,     \* live-tick callbacks that have started and not returned
    cpRunning,    \* the checkpointer goroutine is running
    buffer,       \* f of CheckPointState: the encoding waiting to be saved
    passIdx,      \* index of the schedule the inner loop of Run is at
    cancelled,    \* the context passed to Run has been cancelled
    readFailures, \* metrics.ScheduleReadFailure of this process
    lastFire      \* the call of fire the step just taken made (NoFire: none)

vars == <<now, db, executions, persisted, events, pc, snapshot,
          bootSnapshot, schedules, catchUpTill, cuIdx, cuTimes, fireLog,
          jobsMap, inflight, cpRunning, buffer, passIdx, cancelled,
          readFailures, lastFire>>

env == <<now, db, persisted>>
catchup == <<catchUpTill, cuIdx, cuTimes, fireLog>>

\* ------------------------------------------------------------------ bounds
MaxTime == 3
MaxEvents == 1

\* ------------------------------------------------------- program constants
Steps == 30
snapShotVersion == 1
NameWidth == 19
ZeroTime == 0

SchedIds == {1, 2}
Instants == 0..MaxTime

\* The schedule definitions: schedule 1 is the cron expression "every
\* minute" (* * * * *), schedule 2 "every third minute" (*/3 * * * *).
Period(id) == IF id = 1 THEN 1 ELSE 3

Max(a, b) == IF a >= b THEN a ELSE b

\* ------------------------------------------------ schedule name, exec name
GetScheduleName(s) == s.id

HashModulus == 65536
HashPrime == 251
UUIDBytes == 16
Hyphen == -1

\* The hash of (identity, scheduled instant), or an error.
GetExecutionIdentifier(id, scheduledTime, idErr) ==
    [err |-> idErr, hash |-> (id * HashPrime + scheduledTime) % HashModulus]

RECURSIVE Pow256(_)
Pow256(i) == IF i = 0 THEN 1 ELSE 256 * Pow256(i - 1)

\* Byte i (from 0) of the 16-byte identifier: the hash little-endian in the
\* leading bytes, zero after it.
UUIDByte(h, i) == IF i < 2 THEN (h \div Pow256(i)) % 256 ELSE 0

\* uuid.String(): 32 hex digits grouped 8-4-4-4-12 by hyphens.
UUIDString(h) ==
    LET hex == [j \in 1..(2 * UUIDBytes) |->
                  LET b == UUIDByte(h, (j - 1) \div 2)
                  IN IF j % 2 = 1 THEN b \div 16 ELSE b % 16]
    IN SubSeq(hex, 1, 8) \o <<Hyphen>> \o SubSeq(hex, 9, 12) \o <<Hyphen>>
       \o SubSeq(hex, 13, 16) \o <<Hyphen>> \o SubSeq(hex, 17, 20) \o <<Hyphen>>
       \o SubSeq(hex, 21, 32)

IsNotHyphen(c) == c # Hyphen

\* strings.ReplaceAll(x, "-", "")
ReplaceAllHyphens(str) == SelectSeq(str, IsNotHyphen)

\* A name made from the hash of the identity and the time of submission.
ExecutionNameAtSubmission(s, scheduledTime, ident) ==
    <<"f">> \o SubSeq(ReplaceAllHyphens(UUIDString(
                GetExecutionIdentifier(s.id, now, FALSE).hash)), 1, NameWidth)

\* "f" + strings.ReplaceAll(executionIdentifier.String(), "-", "")[:19]
ExecutionName(s, scheduledTime, ident) ==
    <<"f">> \o SubSeq(ReplaceAllHyphens(UUIDString(ident.hash)), 1, NameWidth)

\* ----------------------------------------------------------- trigger engine
\* The least instant strictly after t that matches the cron expression.
GetScheduledTime(id, t) == ((t \div Period(id)) + 1) * Period(id)

RECURSIVE Enumerate(_, _, _)
Enumerate(id, from, to) ==
    LET n == GetScheduledTime(id, from)
    IN IF n > to THEN <<>> ELSE <<n>> \o Enumerate(id, n, to)

\* The instants of schedule s over [from, to]; an error when the expression
\* of the schedule cannot be parsed.
GetCatchUpTimes(s, from, to) ==
    IF s.expr = "bad" THEN [err |-> TRUE, times |-> <<>>]
    ELSE [err |-> FALSE, times |-> Enumerate(s.id, from, to)]

\* ---------------------------------------------------------- watermark table
EmptySnapshot == [id \in SchedIds |-> ZeroTime]
GetLastExecutionTime(snap, name) == snap[name]
UpdateLastExecutionTime(snap, name, t) == [snap EXCEPT ![name] = t]
IsEmpty(snap) == \A id \in SchedIds : snap[id] = ZeroTime
IsZero(t) == t = ZeroTime

\* ------------------------------------------------------------ snapshot codec
NoRow == [version |-> 0, complete |-> FALSE, entries |-> {}]

\* The version tag, then the entries of the table.
WriteSnapshot(snap, writeErr) ==
    IF writeErr THEN [err |-> TRUE,
                      bytes |-> [version |-> snapShotVersion, complete |-> FALSE, entries |-> {}]]
    ELSE [err |-> FALSE,
          bytes |-> [version |-> snapShotVersion, complete |-> TRUE,
                     entries |-> {<<id, snap[id]>> : id \in {i \in SchedIds : snap[i] # ZeroTime}}]]

ReadSnapshot(bytes, version) ==
    IF ~bytes.complete THEN [err |-> TRUE, snapshot |-> EmptySnapshot]
    ELSE IF bytes.version # version THEN [err |-> FALSE, snapshot |-> EmptySnapshot]
    ELSE [err |-> FALSE,
          snapshot |-> [id \in SchedIds |->
                          IF \E e \in bytes.entries : e[1] = id
                          THEN (CHOOSE e \in bytes.entries : e[1] = id)[2]
                          ELSE ZeroTime]]

\* readSnapShot: a read or decode failure yields the empty table.
readSnapShot(row, readErr, version) ==
    IF readErr \/ row = NoRow THEN EmptySnapshot
    ELSE LET r == ReadSnapshot(row, version)
         IN IF r.err THEN EmptySnapshot ELSE r.snapshot

\* -------------------------------------------------------------- admin service
\* CreateExecution: a transient failure while the admin is down, AlreadyExists
\* for a name it already holds, otherwise the execution is created.
CreateExecution(req, execs, down) ==
    IF down THEN [err |-> "Internal", executions |-> execs]
    ELSE IF \E e \in execs : e.name = req.name
         THEN [err |-> "AlreadyExists", executions |-> execs]
         ELSE [err |-> "nil", executions |-> execs \cup {req}]

\* ------------------------------------------------------------------- fire
\* A predicate that retries every error, AlreadyExists too.
RetriableUnlessNil(err) == err # "nil"

\* The retriable predicate handed to retry.OnError.
Retriable(err) ==
    IF err = "nil" THEN FALSE
    ELSE IF err = "AlreadyExists" THEN FALSE
    ELSE TRUE

\* A counter that counts AlreadyExists as a failure.
FailedExecutionIncOnAnyError(err) == IF err = "nil" THEN 0 ELSE 1

\* FailedExecutionCounter.Inc() inside the predicate.
FailedExecutionInc(err) ==
    IF err = "nil" THEN 0
    ELSE IF err = "AlreadyExists" THEN 0
    ELSE 1

\* retry.OnError(wait.Backoff{Factor: 1.0, Steps: steps}, retriable, fn): fn
\* is tried until it returns nil, a non-retriable error, or the steps are
\* used up, and then the last error is returned.  The admin is down for the
\* first `down` calls.
RECURSIVE OnError(_, _, _, _, _, _, _)
OnError(steps, attempts, failures, lastErr, down, req, execs) ==
    IF steps = 0
    THEN [err |-> lastErr, attempts |-> attempts, failures |-> failures,
          executions |-> execs]
    ELSE LET resp == CreateExecution(req, execs, attempts < down)
         IN IF Retriable(resp.err)
            THEN OnError(steps - 1, attempts + 1,
                         failures + FailedExecutionInc(resp.err), resp.err,
                         down, req, resp.executions)
            ELSE [err |-> resp.err, attempts |-> attempts + 1,
                  failures |-> failures + FailedExecutionInc(resp.err),
                  executions |-> resp.executions]

\* A fire that returns what the retry returned.
FireReturnRetryResult(retryErr) == retryErr

\* The value fire returns to its caller after the retry ended with retryErr.
FireReturn(retryErr) == "nil"

\* fire(ctx, scheduledTime, s): the identifier, the request, the active
\* check, the bounded retry.  ret is the error returned ("nil" for none);
\* retry the result of retry.OnError ("none" when it was not reached).
fire(scheduledTime, s, idErr, down, execs) ==
    LET ident == GetExecutionIdentifier(s.id, scheduledTime, idErr)
    IN IF ident.err
       THEN [ret |-> "IdentifierError", retry |-> "none", attempts |-> 0,
             failures |-> 0, executions |-> execs]
       ELSE IF ~s.active
       THEN [ret |-> "nil", retry |-> "none", attempts |-> 0, failures |-> 0,
             executions |-> execs]
       ELSE LET req == [name |-> ExecutionName(s, scheduledTime, ident),
                        id |-> s.id, t |-> scheduledTime]
                r == OnError(Steps, 0, 0, "nil", down, req, execs)
            IN [ret |-> FireReturn(r.err), retry |-> r.err,
                attempts |-> r.attempts, failures |-> r.failures,
                executions |-> r.executions]

\* What one call of fire did, as the step that made it records it.
FireRecord(s, scheduledTime, down, r) ==
    [id |-> s.id, t |-> scheduledTime, active |-> s.active, down |-> down,
     ret |-> r.ret, retry |-> r.retry, attempts |-> r.attempts,
     failures |-> r.failures]

NoFire == [id |-> 0, t |-> ZeroTime, active |-> FALSE, down |-> 0,
           ret |-> "nil", retry |-> "none", attempts |-> 0, failures |-> 0]

NoJob == [registered |-> FALSE, active |-> FALSE, next |-> ZeroTime]
NoJobs == [id \in SchedIds |-> NoJob]

\* The number of leading CreateExecution calls of one fire the admin fails.
FailChoices == {0, 1, Steps - 1, Steps}

\* An environment event (a fault of a collaborator, a restart, an API call)
\* is taken only while the budget lasts.
Fault(n) ==
    /\ events + n <= MaxEvents
    /\ events' = events + n

Cost(b) == IF b THEN 1 ELSE 0
CostK(down) == IF down > 0 THEN 1 ELSE 0

\* SchedulableEntityRepo().GetAll: every row, whatever its active state.
GetAll(d) ==
    [i \in 1..Cardinality(SchedIds) |->
        [id |-> i, active |-> d[i].active, updatedAt |-> d[i].updatedAt,
         expr |-> d[i].expr]]

\* The watermark tables an earlier life of the process can have held when
\* its checkpointer ran: not empty, every entry an instant of its schedule
\* that is not after the time of the start.
TablesBefore ==
    {snap \in [SchedIds -> 0..1] :
        /\ ~IsEmpty(snap)
        /\ \A id \in SchedIds :
               snap[id] # ZeroTime => GetScheduledTime(id, snap[id] - 1) = snap[id]}

\* The latest snapshot row an earlier life of the process can have left in
\* the repository: none, or what a checkpointer cycle handed to
\* CreateSnapShot, the whole encoding of its table when WriteSnapshot
\* returned nil and a part of it when WriteSnapshot returned an error.
RowsLeftBehind ==
    {NoRow} \cup {WriteSnapshot(snap, writeErr).bytes :
                      snap \in TablesBefore, writeErr \in BOOLEAN}

\* The state of everything but the snapshot repository before the process
\* is started.
InitProcess ==
    /\ now = 1
    /\ db \in {d \in [SchedIds -> [active : {TRUE}, updatedAt : {1}, expr : {"ok", "bad"}]] :
                 d[1].expr = "ok"}
    /\ executions = {}
    /\ events = 0
    /\ pc = "down"
    /\ snapshot = EmptySnapshot
    /\ bootSnapshot = EmptySnapshot
    /\ schedules = <<>>
    /\ catchUpTill = ZeroTime
    /\ cuIdx = 0
    /\ cuTimes = <<>>
    /\ fireLog = <<>>
    /\ jobsMap = NoJobs
    /\ inflight = {}
    /\ cpRunning = FALSE
    /\ buffer = NoRow
    /\ passIdx = 0
    /\ cancelled = FALSE
    /\ readFailures = 0
    /\ lastFire = NoFire

\* A first start: the snapshot repository holds no row.
Init ==
    /\ InitProcess
    /\ persisted = NoRow

\* A start after an earlier life of the process.
BootInit ==
    /\ InitProcess
    /\ persisted \in RowsLeftBehind

\* ------------------------------------------------------------- environment
ClockTick ==
    /\ now < MaxTime
    /\ \A id \in SchedIds : jobsMap[id].registered => jobsMap[id].next > now
    /\ now' = now + 1
    /\ UNCHANGED <<db, executions, persisted, events, pc, snapshot,
                   bootSnapshot, schedules, catchup, jobsMap, inflight,
                   cpRunning, buffer, passIdx, cancelled, readFailures>>
    /\ lastFire' = NoFire

\* The API layer activates or deactivates a schedule; updated_at changes on
\* every such transition.
SetActive(id) ==
    /\ Fault(1)
    /\ db' = [db EXCEPT ![id].active = ~db[id].active, ![id].updatedAt = now]
    /\ UNCHANGED <<now, executions, persisted, pc, snapshot,
                   bootSnapshot, schedules, catchup, jobsMap, inflight,
                   cpRunning, buffer, passIdx, cancelled, readFailures>>
    /\ lastFire' = NoFire

\* The process dies; everything in memory is lost.
Crash ==
    /\ pc # "down"
    /\ Fault(1)
    /\ pc' = "down"
    /\ snapshot' = EmptySnapshot
    /\ bootSnapshot' = EmptySnapshot
    /\ schedules' = <<>>
    /\ catchUpTill' = ZeroTime
    /\ cuIdx' = 0
    /\ cuTimes' = <<>>
    /\ fireLog' = <<>>
    /\ jobsMap' = NoJobs
    /\ inflight' = {}
    /\ cpRunning' = FALSE
    /\ buffer' = NoRow
    /\ passIdx' = 0
    /\ cancelled' = FALSE
    /\ readFailures' = 0
    /\ lastFire' = NoFire
    /\ UNCHANGED <<now, db, executions, persisted>>

\* The caller of Run cancels the context it passed.  No statement of Run,
\* of the checkpointer or of the callbacks reads ctx.Done() or ctx.Err().
Cancel ==
    /\ pc \in {"read", "catchup", "single", "caughtup", "pass", "sleep"}
    /\ ~cancelled
    /\ Fault(1)
    /\ cancelled' = TRUE
    /\ UNCHANGED readFailures
    /\ UNCHANGED <<now, db, executions, persisted, pc, snapshot,
                   bootSnapshot, schedules, catchup, jobsMap, inflight,
                   cpRunning, buffer, passIdx>>
    /\ lastFire' = NoFire

\* --------------------------------------------------------------- executor
\* A construction that gives up when the latest row cannot be decoded.
NewWorkflowExecutorStrictDecode(readErr) ==
    /\ pc = "down"
    /\ Fault(0)
    /\ IF ~readErr /\ persisted # NoRow /\ ReadSnapshot(persisted, snapShotVersion).err
       THEN /\ pc' = "returned"
            /\ UNCHANGED <<snapshot, bootSnapshot>>
       ELSE /\ pc' = "new"
            /\ snapshot' = readSnapShot(persisted, readErr, snapShotVersion)
            /\ bootSnapshot' = snapshot'
    /\ UNCHANGED <<env, executions, schedules, catchup, jobsMap, inflight,
                   cpRunning, buffer, passIdx, cancelled, readFailures>>
    /\ lastFire' = NoFire

\* NewWorkflowExecutor: the table is what readSnapShot returns, and the
\* executor is built whatever the read and the decoding returned.
\* A failing read of the latest snapshot row is not counted as an event: it
\* leaves the executor where a missing row leaves it.
NewWorkflowExecutor(readErr) ==
    /\ pc = "down"
    /\ Fault(0)
    /\ pc' = "new"
    /\ snapshot' = readSnapShot(persisted, readErr, snapShotVersion)
    /\ bootSnapshot' = snapshot'
    /\ UNCHANGED <<env, executions, schedules, catchup, jobsMap, inflight,
                   cpRunning, buffer, passIdx, cancelled, readFailures>>
    /\ lastFire' = NoFire

\* A Run that starts the checkpointer goroutine before the catch-up.
RunStartWithCheckPointer(dbErr) ==
    /\ pc = "new"
    /\ Fault(Cost(dbErr))
    /\ IF dbErr
       THEN /\ pc' = "returned"
            /\ UNCHANGED <<schedules, cpRunning>>
       ELSE /\ schedules' = GetAll(db)
            /\ pc' = "read"
            /\ cpRunning' = TRUE
    /\ UNCHANGED <<env, executions, snapshot, bootSnapshot, catchup, jobsMap,
                   inflight, buffer, passIdx, cancelled, readFailures>>
    /\ lastFire' = NoFire

\* Run, the first read of the schedules: the rows the repository holds when
\* it answers, or the error Run returns.
RunStart(dbErr) ==
    /\ pc = "new"
    /\ Fault(Cost(dbErr))
    /\ IF dbErr
       THEN /\ pc' = "returned"
            /\ UNCHANGED schedules
       ELSE /\ schedules' = GetAll(db)
            /\ pc' = "read"
    /\ UNCHANGED <<env, executions, snapshot, bootSnapshot, catchup, jobsMap,
                   inflight, cpRunning, buffer, passIdx, cancelled, readFailures>>
    /\ lastFire' = NoFire

\* A Run whose catch-up runs up to an instant later than the time of its
\* start.
RunCatchUpTillAhead ==
    /\ pc = "read"
    /\ catchUpTill' = now + 1
    /\ cuIdx' = 1
    /\ pc' = "catchup"
    /\ UNCHANGED <<env, events, executions, snapshot, bootSnapshot, schedules,
                   cuTimes, fireLog, jobsMap, inflight, cpRunning, buffer,
                   passIdx, cancelled, readFailures>>
    /\ lastFire' = NoFire

\* Run, after the read returned: catchUpTill := time.Now() and the call of
\* CatchUpAllSchedules.
RunCatchUpTill ==
    /\ pc = "read"
    /\ catchUpTill' = now
    /\ cuIdx' = 1
    /\ pc' = "catchup"
    /\ UNCHANGED <<env, events, executions, snapshot, bootSnapshot, schedules,
                   cuTimes, fireLog, jobsMap, inflight, cpRunning, buffer,
                   passIdx, cancelled, readFailures>>
    /\ lastFire' = NoFire

\* A catch-up that always starts from updated_at.
FromTimeIgnoringWatermark(s, snap) == s.updatedAt

\* A catch-up that starts from the watermark alone.
FromTimeWatermarkOnly(s, snap) == GetLastExecutionTime(snap, GetScheduleName(s))

\* fromTime of CatchUpAllSchedules for an active schedule.
FromTime(s, snap) ==
    LET lastT == GetLastExecutionTime(snap, GetScheduleName(s))
    IN IF ~IsZero(lastT) /\ lastT > s.updatedAt THEN lastT ELSE s.updatedAt

\* A catch-up that passes over no schedule.
CatchUpSkipsNothing(s) == FALSE

\* Whether CatchUpAllSchedules passes over s without catching it up.
CatchUpSkips(s) == ~s.active

\* One iteration of the loop of CatchUpAllSchedules, up to the enumeration
\* of the instants in CatchUpSingleSchedule.
CatchUpAllSchedules ==
    /\ pc = "catchup"
    /\ IF cuIdx > Len(schedules)
       THEN /\ pc' = "caughtup"
            /\ UNCHANGED <<cuIdx, cuTimes>>
       ELSE LET s == schedules[cuIdx]
            IN IF CatchUpSkips(s)
               THEN /\ cuIdx' = cuIdx + 1
                    /\ UNCHANGED <<pc, cuTimes>>
               ELSE LET r == GetCatchUpTimes(s, FromTime(s, snapshot), catchUpTill)
                    IN IF r.err
                       THEN /\ pc' = "returned"
                            /\ UNCHANGED <<cuIdx, cuTimes>>
                       ELSE /\ pc' = "single"
                            /\ cuTimes' = r.times
                            /\ UNCHANGED cuIdx
    /\ UNCHANGED <<env, events, executions, snapshot, bootSnapshot, schedules,
                   catchUpTill, fireLog, jobsMap, inflight, cpRunning, buffer, passIdx, cancelled, readFailures>>
    /\ lastFire' = NoFire

\* A catch-up that goes on after a fire returned an error.
CatchUpNeverAborts(ret) == FALSE

\* Whether CatchUpSingleSchedule returns the error fire returned.
CatchUpAborts(ret) == ret # "nil"

\* A catch-up that leaves the watermark where it was.
CatchUpAfterFireNoUpdate(snap, s, t, ret) == snap

\* The watermark table after a catch-up fire of instant t returned ret.
CatchUpAfterFire(snap, s, t, ret) ==
    IF CatchUpAborts(ret) THEN snap
    ELSE UpdateLastExecutionTime(snap, GetScheduleName(s), t)

\* One iteration of the loop of CatchUpSingleSchedule: a token, fire, and
\* the watermark; or its return when no instant is left.
CatchUpSingleSchedule(idErr, down) ==
    /\ pc = "single"
    /\ IF cuTimes = <<>>
       THEN /\ idErr = FALSE /\ down = 0
            /\ pc' = "catchup"
            /\ cuIdx' = cuIdx + 1
            /\ UNCHANGED <<events, cuTimes, fireLog, executions, snapshot>>
            /\ lastFire' = NoFire
       ELSE LET s == schedules[cuIdx]
                catchupTime == Head(cuTimes)
                r == fire(catchupTime, s, idErr, down, executions)
            IN /\ Fault(Cost(idErr) + CostK(down))
               /\ fireLog' = Append(fireLog, <<s.id, catchupTime>>)
               /\ executions' = r.executions
               /\ lastFire' = FireRecord(s, catchupTime, down, r)
               /\ snapshot' = CatchUpAfterFire(snapshot, s, catchupTime, r.ret)
               /\ IF CatchUpAborts(r.ret)
                  THEN /\ pc' = "returned"
                       /\ UNCHANGED <<cuTimes, cuIdx>>
                  ELSE /\ cuTimes' = Tail(cuTimes)
                       /\ UNCHANGED <<pc, cuIdx>>
    /\ UNCHANGED <<env, bootSnapshot, schedules, catchUpTill, jobsMap,
                   inflight, cpRunning, buffer, passIdx, cancelled, readFailures>>

\* Register(s, funcRef) / DeRegister(s) of the cron registry.
Register(jobs, s) ==
    IF s.expr = "bad" THEN jobs
    ELSE [jobs EXCEPT ![s.id] = [registered |-> TRUE, active |-> s.active,
                                 next |-> GetScheduledTime(s.id, now)]]

DeRegister(jobs, s) == [jobs EXCEPT ![s.id] = NoJob]

\* An inner loop that registers the active schedules and leaves the handle
\* of an inactive one in place.
ReconcileRegisterOnly(jobs, s) ==
    IF ~s.active THEN jobs ELSE Register(jobs, s)

\* The body of the inner loop of Run for schedule s: it is deregistered when
\* inactive and registered otherwise (an error of Register is counted and
\* logged).
Reconcile(jobs, s) ==
    IF ~s.active THEN DeRegister(jobs, s) ELSE Register(jobs, s)

\* Where Run goes with the slice it is about to range over: into the inner
\* loop, or past it to the sleep when the slice has no element.
PassOver(scheds) == IF scheds = <<>> THEN "sleep" ELSE "pass"

\* Run, after the catch-up returned nil: the checkpointer goroutine is
\* started and Run enters its loop with the schedules read at boot.
StartCheckPointer ==
    /\ pc = "caughtup"
    /\ cpRunning' = TRUE
    /\ pc' = PassOver(schedules)
    /\ passIdx' = IF schedules = <<>> THEN 0 ELSE 1
    /\ UNCHANGED <<env, events, executions, snapshot, bootSnapshot, schedules,
                   catchup, jobsMap, inflight, buffer, cancelled, readFailures>>
    /\ lastFire' = NoFire

\* One iteration of the inner loop of Run: the call of DeRegister or of
\* Register for the schedule it is at, at the time of the call; after the
\* last schedule Run sleeps.
ReconcileSchedule ==
    /\ pc = "pass"
    /\ jobsMap' = Reconcile(jobsMap, schedules[passIdx])
    /\ IF passIdx = Len(schedules)
       THEN pc' = "sleep" /\ passIdx' = 0
       ELSE pc' = "pass" /\ passIdx' = passIdx + 1
    /\ UNCHANGED <<env, events, executions, snapshot, bootSnapshot, schedules,
                   catchup, inflight, cpRunning, buffer, cancelled, readFailures>>
    /\ lastFire' = NoFire

\* A re-read that keeps the slice it had when the read fails.
ReReadKeepsSlice(d, dbErr) == IF dbErr THEN schedules ELSE GetAll(d)

\* The slice Run iterates after a re-read of the schedules.
ReRead(d, dbErr) == IF dbErr THEN <<>> ELSE GetAll(d)

\* w.metrics.ScheduleReadFailure.Inc() when the re-read returned an error.
ScheduleReadFailureInc(dbErr) == IF dbErr THEN 1 ELSE 0

\* A loop that returns when the schedules cannot be read.
AfterReReadReturnsOnError(scheds, dbErr) ==
    IF dbErr THEN "returned" ELSE PassOver(scheds)

\* Where Run stands after the re-read: the error is logged and counted, and
\* the loop goes on with the slice the read left.
AfterReRead(scheds, dbErr) == PassOver(scheds)

\* A loop that reads the rows into a slice other than the one its pass goes
\* over.
SleepAndReReadDelayed(dbErr) ==
    /\ pc = "sleep"
    /\ Fault(Cost(dbErr))
    /\ schedules' = IF dbErr THEN <<>> ELSE schedules
    /\ pc' = AfterReRead(schedules', dbErr)
    /\ passIdx' = IF pc' = "pass" THEN 1 ELSE 0
    /\ readFailures' = readFailures + ScheduleReadFailureInc(dbErr)
    /\ UNCHANGED <<env, executions, snapshot, bootSnapshot, catchup, jobsMap,
                   inflight, cpRunning, buffer, cancelled>>
    /\ lastFire' = NoFire

\* The rest of an iteration of the outer loop of Run: the sleep ends and the
\* schedules are read again; after a failed read Run sleeps the back-off
\* and has nothing to range over.
SleepAndReRead(dbErr) ==
    /\ pc = "sleep"
    /\ Fault(Cost(dbErr))
    /\ schedules' = ReRead(db, dbErr)
    /\ pc' = AfterReRead(schedules', dbErr)
    /\ passIdx' = IF pc' = "pass" THEN 1 ELSE 0
    /\ readFailures' = readFailures + ScheduleReadFailureInc(dbErr)
    /\ UNCHANGED <<env, executions, snapshot, bootSnapshot, catchup, jobsMap,
                   inflight, cpRunning, buffer, cancelled>>
    /\ lastFire' = NoFire

\* The ticker of the registry reaches the next instant of a job and starts
\* its callback in a task of its own; funcRef returns at once when the
\* schedule it was registered with is not active.
TickDeliver(id) ==
    /\ jobsMap[id].registered
    /\ jobsMap[id].next <= now
    /\ jobsMap' = [jobsMap EXCEPT ![id].next = GetScheduledTime(id, jobsMap[id].next)]
    /\ inflight' = IF ~jobsMap[id].active THEN inflight
                   ELSE inflight \cup {[id |-> id, t |-> jobsMap[id].next,
                                        active |-> jobsMap[id].active,
                                        ret |-> "none"]}
    /\ UNCHANGED <<env, events, executions, pc, snapshot, bootSnapshot,
                   schedules, catchup, cpRunning, buffer, passIdx, cancelled, readFailures>>
    /\ lastFire' = NoFire

\* A live fire that records its instant in a table of its own.
LiveAfterFireFreshTable(snap, s, t, ret) ==
    IF ret # "nil" THEN snap
    ELSE UpdateLastExecutionTime(EmptySnapshot, GetScheduleName(s), t)

\* The watermark table after the live fire of instant t returned ret.
LiveAfterFire(snap, s, t, ret) ==
    IF ret # "nil" THEN snap
    ELSE UpdateLastExecutionTime(snap, GetScheduleName(s), t)

\* funcRef up to the return of fire: a token and the call of fire.  On an
\* error of fire the callback logs it and returns; otherwise it goes on to
\* the watermark.
LiveFire(cb, idErr, down) ==
    /\ cb \in inflight
    /\ cb.ret = "none"
    /\ Fault(Cost(idErr) + CostK(down))
    /\ LET s == [id |-> cb.id, active |-> cb.active]
           r == fire(cb.t, s, idErr, down, executions)
       IN /\ executions' = r.executions
          /\ lastFire' = FireRecord(s, cb.t, down, r)
          /\ inflight' = IF r.ret # "nil" THEN inflight \ {cb}
                         ELSE (inflight \ {cb}) \cup {[cb EXCEPT !.ret = r.ret]}
    /\ UNCHANGED <<env, pc, snapshot, bootSnapshot, schedules, catchup, jobsMap,
                   cpRunning, buffer, passIdx, cancelled, readFailures>>

\* The last statement of funcRef, run when the callback gets to it after
\* fire returned: the watermark of the schedule becomes the instant.
LiveUpdate(cb) ==
    /\ cb \in inflight
    /\ cb.ret # "none"
    /\ snapshot' = LiveAfterFire(snapshot, [id |-> cb.id, active |-> cb.active],
                                 cb.t, cb.ret)
    /\ inflight' = inflight \ {cb}
    /\ UNCHANGED <<env, events, executions, pc, bootSnapshot, schedules, catchup,
                   jobsMap, cpRunning, buffer, passIdx, cancelled, readFailures>>
    /\ lastFire' = NoFire

\* CheckPointState panics in its goroutine.  The deferred handler recovers,
\* increments CheckPointPanicCounter and calls logger.Fatalf, which logs the
\* message and ends the process with os.Exit(1): the counter, the watermark
\* table, the registry and the loop of Run go with it; the database stays.
CheckPointerPanic ==
    /\ cpRunning
    /\ Fault(1)
    /\ pc' = "down"
    /\ snapshot' = EmptySnapshot
    /\ bootSnapshot' = EmptySnapshot
    /\ schedules' = <<>>
    /\ catchUpTill' = ZeroTime
    /\ cuIdx' = 0
    /\ cuTimes' = <<>>
    /\ fireLog' = <<>>
    /\ jobsMap' = NoJobs
    /\ inflight' = {}
    /\ cpRunning' = FALSE
    /\ buffer' = NoRow
    /\ passIdx' = 0
    /\ cancelled' = FALSE
    /\ readFailures' = 0
    /\ lastFire' = NoFire
    /\ UNCHANGED <<now, db, executions, persisted>>

\* A checkpointer that encodes the table also when it is empty.
CheckPointStateWriteAlways(writeErr) ==
    /\ cpRunning
    /\ buffer = NoRow
    /\ Fault(Cost(writeErr))
    /\ buffer' = WriteSnapshot(snapshot, writeErr).bytes
    /\ UNCHANGED <<now, db, persisted, executions, pc, snapshot,
                   bootSnapshot, schedules, catchup, jobsMap, inflight,
                   cpRunning, passIdx, cancelled, readFailures>>
    /\ lastFire' = NoFire

\* A cycle of CheckPointState up to the call of CreateSnapShot: when the
\* table is empty the cycle goes to its sleep; otherwise WriteSnapshot fills
\* the buffer, entirely or, when it returns an error, in part.
CheckPointStateWrite(writeErr) ==
    /\ cpRunning
    /\ buffer = NoRow
    /\ IF IsEmpty(snapshot)
       THEN /\ writeErr = FALSE
            /\ UNCHANGED <<buffer, events>>
       ELSE /\ Fault(Cost(writeErr))
            /\ buffer' = WriteSnapshot(snapshot, writeErr).bytes
    /\ UNCHANGED <<now, db, persisted, executions, pc, snapshot,
                   bootSnapshot, schedules, catchup, jobsMap, inflight,
                   cpRunning, passIdx, cancelled, readFailures>>
    /\ lastFire' = NoFire

\* A checkpointer that saves only while the repository holds no row.
CheckPointStateSaveOnce(saveErr) ==
    /\ cpRunning
    /\ buffer # NoRow
    /\ Fault(Cost(saveErr))
    /\ persisted' = IF saveErr \/ persisted # NoRow THEN persisted ELSE buffer
    /\ buffer' = NoRow
    /\ UNCHANGED <<now, db, executions, pc, snapshot,
                   bootSnapshot, schedules, catchup, jobsMap, inflight,
                   cpRunning, passIdx, cancelled, readFailures>>
    /\ lastFire' = NoFire

\* The rest of the cycle: CreateSnapShot answers for the bytes of the
\* buffer, and the cycle goes to its sleep.
CheckPointStateSave(saveErr) ==
    /\ cpRunning
    /\ buffer # NoRow
    /\ Fault(Cost(saveErr))
    /\ persisted' = IF saveErr THEN persisted ELSE buffer
    /\ buffer' = NoRow
    /\ UNCHANGED <<now, db, executions, pc, snapshot,
                   bootSnapshot, schedules, catchup, jobsMap, inflight,
                   cpRunning, passIdx, cancelled, readFailures>>
    /\ lastFire' = NoFire

Next ==
    \/ ClockTick
    \/ \E id \in SchedIds : SetActive(id)
    \/ Crash
    \/ Cancel
    \/ \E readErr \in BOOLEAN : NewWorkflowExecutor(readErr)
    \/ \E dbErr \in BOOLEAN : RunStart(dbErr)
    \/ RunCatchUpTill
    \/ CatchUpAllSchedules
    \/ \E idErr \in BOOLEAN, down \in FailChoices : CatchUpSingleSchedule(idErr, down)
    \/ StartCheckPointer
    \/ ReconcileSchedule
    \/ \E dbErr \in BOOLEAN : SleepAndReRead(dbErr)
    \/ \E id \in SchedIds : TickDeliver(id)
    \/ \E cb \in inflight, idErr \in BOOLEAN, down \in FailChoices : LiveFire(cb, idErr, down)
    \/ \E cb \in inflight : LiveUpdate(cb)
    \/ \E writeErr \in BOOLEAN : CheckPointStateWrite(writeErr)
    \/ \E saveErr \in BOOLEAN : CheckPointStateSave(saveErr)
    \/ CheckPointerPanic

Spec == Init /\ [][Next]_vars

\* The process started over what an earlier life of it left behind.
BootSpec == BootInit /\ [][Next]_vars

\* The checkpointer goroutine loops for ever with a sleep of 30 s between
\* two cycles, and a callback that got past fire reaches its last statement:
\* an encoding and a CreateSnapShot that succeed are taken again and again
\* while the repository keeps answering.
FairSpec ==
    /\ Spec
    /\ WF_vars(CheckPointStateWrite(FALSE))
    /\ WF_vars(CheckPointStateSave(FALSE))
    /\ WF_vars(\E cb \in inflight : LiveUpdate(cb))

\* ================================================================= claims
IsPrefix(a, b) == Len(a) <= Len(b) /\ SubSeq(b, 1, Len(a)) = a

\* The instants fire was called with for schedule id during the catch-up.
FiredOf(id) ==
    LET sel == SelectSeq(fireLog, LAMBDA e : e[1] = id)
    IN [j \in 1..Len(sel) |-> sel[j][2]]

\* The instants the trigger engine enumerates for s from the later of its
\* updated_at and the watermark the process booted with, up to toTime.
Expected(s) ==
    Enumerate(s.id, Max(s.updatedAt, bootSnapshot[s.id]), catchUpTill)

\* The phases in which `schedules` is the slice the catch-up goes over.
InCatchUp == pc \in {"catchup", "single", "caughtup", "returned"}

\* The phases in which Run is in its loop: inside a pass over the slice, or
\* between two passes.
InLoop == pc \in {"pass", "sleep"}

\* The pass in progress, or the one just over, is done with schedules[i].
Reconciled(i) == pc = "sleep" \/ (pc = "pass" /\ i < passIdx)

\* The registry agrees with schedule s: no handle when s is inactive, a
\* handle made from s when s is active and can be registered.
AgreesWith(jobs, s) ==
    /\ ~s.active => ~jobs[s.id].registered
    /\ (s.active /\ s.expr = "ok") =>
           (jobs[s.id].registered /\ jobs[s.id].active)

Accepted(id, t) == \E e \in executions : e.id = id /\ e.t = t

\* C1: during and after the catch-up, the calls of fire for an active
\* schedule are a prefix of the instants enumerated over
\* [max(UpdatedAt, watermark), toTime], in that order and each once; they are
\* all of them once the schedule is done; none is at or before the watermark.
CatchUpFiresEnumeratedInstants ==
    InCatchUp =>
        \A i \in 1..Len(schedules) :
            schedules[i].active =>
                LET s == schedules[i]
                    fired == FiredOf(s.id)
                    exp == Expected(s)
                IN /\ IsPrefix(fired, exp)
                   /\ (i < cuIdx => fired = exp)
                   /\ (pc = "single" /\ i = cuIdx => fired \o cuTimes = exp)
                   /\ (i > cuIdx => fired = <<>>)
                   /\ \A j \in 1..Len(fired) : fired[j] > bootSnapshot[s.id]

CatchUpFiredTwoInOrder ==
    /\ pc = "caughtup"
    /\ \E i \in 1..Len(schedules) :
           /\ schedules[i].active
           /\ Len(FiredOf(schedules[i].id)) >= 2
           /\ FiredOf(schedules[i].id) = Expected(schedules[i])

\* C9: when CatchUpAllSchedules has returned nil, the watermark of every
\* active schedule is the greatest instant enumerated for it, which is at
\* most toTime, and is the watermark of boot when none was enumerated.
CatchUpLeavesLastInstant ==
    pc = "caughtup" =>
        \A i \in 1..Len(schedules) :
            schedules[i].active =>
                LET s == schedules[i]
                    exp == Expected(s)
                IN IF exp # <<>>
                   THEN /\ snapshot[s.id] = exp[Len(exp)]
                        /\ snapshot[s.id] <= catchUpTill
                   ELSE snapshot[s.id] = bootSnapshot[s.id]

CaughtUpWithAndWithoutInstants ==
    /\ pc = "caughtup"
    /\ \E i, j \in 1..Len(schedules) :
           /\ schedules[i].active /\ schedules[j].active
           /\ Expected(schedules[i]) # <<>>
           /\ snapshot[schedules[i].id] = catchUpTill
           /\ Expected(schedules[j]) = <<>>

\* C10: an error of GetCatchUpTimes or of fire ends the catch-up at once:
\* Run has returned, no later instant and no later schedule was fired, the
\* watermark is not at the failed instant, the checkpointer was not
\* started and nothing is registered.
CatchUpErrorAborts ==
    /\ (lastFire.ret # "nil" /\ ~InLoop) =>
           /\ pc = "returned"
           /\ snapshot[lastFire.id] # lastFire.t
    /\ pc = "returned" =>
           /\ ~cpRunning
           /\ jobsMap = NoJobs
           /\ inflight = {}
           /\ cuIdx >= 1 =>
                  LET s == schedules[cuIdx]
                      fired == FiredOf(s.id)
                  IN /\ \A j \in (cuIdx + 1)..Len(schedules) :
                            FiredOf(schedules[j].id) = <<>>
                     /\ IsPrefix(fired, Expected(s))
                     /\ IF s.expr = "bad"
                        THEN fired = <<>> /\ snapshot[s.id] = bootSnapshot[s.id]
                        ELSE /\ fired # <<>>
                             /\ fired[Len(fired)] = Head(cuTimes)
                             /\ snapshot[s.id] < Head(cuTimes)

CatchUpAbortedAtSecondInstant ==
    /\ pc = "returned"
    /\ cuIdx = 1
    /\ cuIdx < Len(schedules)
    /\ schedules[2].active
    /\ Len(FiredOf(schedules[1].id)) = 2
    /\ snapshot[schedules[1].id] = FiredOf(schedules[1].id)[1]
    /\ Expected(schedules[2]) # <<>>

\* C2: the admin service holds at most one created execution for a schedule
\* identity and an instant, whatever catch-up fires, live ticks, retries and
\* restarts submitted it.
NoDoubleFire ==
    \A e1, e2 \in executions :
        (e1.id = e2.id /\ e1.t = e2.t) => e1 = e2

ResubmittedAfterRestart ==
    /\ events >= 1
    /\ bootSnapshot = EmptySnapshot
    /\ lastFire.retry = "AlreadyExists"
    /\ Cardinality({e \in executions : e.id = lastFire.id /\ e.t = lastFire.t}) = 1

\* C3: an instant the catch-up called fire for, of a schedule active and
\* unchanged since before it, that lies at or before both the watermark in
\* memory and the watermark of the latest persisted snapshot (so that no
\* catch-up of this or a later process run and no live tick submits it
\* again) has been accepted by the admin service.
NoExecutionLost ==
    \A k \in 1..Len(fireLog) :
        LET id == fireLog[k][1]
            t  == fireLog[k][2]
        IN (/\ db[id].active
            /\ db[id].updatedAt < t
            /\ snapshot[id] >= t
            /\ readSnapShot(persisted, FALSE, snapShotVersion)[id] >= t) =>
               Accepted(id, t)

\* C4: the watermark of a schedule is an instant the admin service accepted
\* a submission for, and a fire whose attempts all failed leaves the
\* watermark where it was.
WatermarkOnlyAfterAccept ==
    /\ \A id \in SchedIds :
           snapshot[id] # ZeroTime => Accepted(id, snapshot[id])
    /\ (lastFire.attempts = Steps /\ lastFire.failures = Steps) =>
           snapshot[lastFire.id] # lastFire.t

\* C5: within one process run no step replaces the watermark of a schedule
\* by an earlier instant.
WatermarkMonotonic ==
    [][pc' # "down" => \A id \in SchedIds : snapshot'[id] >= snapshot[id]]_vars

\* C6: a schedule object whose Active flag is false causes nothing: the
\* catch-up makes no call of fire for it and leaves its watermark, a call of
\* fire with it makes no CreateExecution attempt, no callback of it gets to
\* take a token, and after a pass of the loop it is not registered.
InactiveCausesNothing ==
    /\ InCatchUp =>
           \A i \in 1..Len(schedules) :
               ~schedules[i].active =>
                   /\ FiredOf(schedules[i].id) = <<>>
                   /\ snapshot[schedules[i].id] = bootSnapshot[schedules[i].id]
    /\ (lastFire.id # 0 /\ ~lastFire.active) =>
           /\ lastFire.attempts = 0
           /\ snapshot[lastFire.id] # lastFire.t
    /\ \A cb \in inflight : cb.active
    /\ \A i \in 1..Len(schedules) :
           (Reconciled(i) /\ ~schedules[i].active) =>
               ~jobsMap[schedules[i].id].registered

InactiveSkippedAndDeregistered ==
    /\ pc = "sleep"
    /\ fireLog # <<>>
    /\ \E i \in 1..Len(schedules) :
           /\ ~schedules[i].active
           /\ Enumerate(schedules[i].id, schedules[i].updatedAt, catchUpTill) # <<>>
           /\ FiredOf(schedules[i].id) = <<>>
           /\ ~jobsMap[schedules[i].id].registered

\* C7: a fire whose CreateExecution is answered AlreadyExists stops at that
\* attempt, counts no failure for it and returns nil; its caller sets the
\* watermark to the instant: the catch-up has done so when the call is
\* over, the live callback goes on to its last statement, which does.
AlreadyExistsIsSuccess ==
    /\ [](lastFire.retry = "AlreadyExists" =>
             /\ lastFire.attempts = lastFire.down + 1
             /\ lastFire.failures = lastFire.down
             /\ lastFire.ret = "nil"
             /\ IF InLoop
                THEN \E cb \in inflight :
                        cb.id = lastFire.id /\ cb.t = lastFire.t /\ cb.ret = "nil"
                ELSE snapshot[lastFire.id] = lastFire.t)
    /\ [][\A cb \in inflight :
              LiveUpdate(cb) => (cb.ret = "nil" /\ snapshot'[cb.id] = cb.t)]_vars

AlreadyExistsOnFirstAttempt ==
    /\ lastFire.retry = "AlreadyExists"
    /\ lastFire.attempts = 1
    /\ lastFire.failures = 0
    /\ lastFire.ret = "nil"
    /\ snapshot[lastFire.id] = lastFire.t

\* C8: one call of fire that reaches the retry makes between 1 and 30
\* attempts; it ends at the first attempt answered nil or AlreadyExists,
\* and the failure counter grows by one for every attempt answered
\* otherwise, by 30 when every attempt failed.
BoundedRetry ==
    lastFire.retry # "none" =>
        /\ lastFire.attempts >= 1
        /\ lastFire.attempts <= Steps
        /\ IF lastFire.retry \in {"nil", "AlreadyExists"}
           THEN /\ lastFire.attempts = lastFire.down + 1
                /\ lastFire.failures = lastFire.attempts - 1
           ELSE /\ lastFire.down >= Steps
                /\ lastFire.attempts = Steps
                /\ lastFire.failures = Steps

RetriesExhausted ==
    /\ lastFire.retry = "Internal"
    /\ lastFire.attempts = Steps
    /\ lastFire.failures = Steps

\* C11 (as stated): every call of fire returns nil, also the one whose
\* execution identifier cannot be generated.
FireAlwaysReturnsNil ==
    lastFire.id # 0 => lastFire.ret = "nil"

\* C11 (amended): a call of fire that reaches the retry returns nil whatever
\* the retry returned (accepted, AlreadyExists, retries exhausted); a call
\* whose execution identifier cannot be generated returns that error and
\* makes no CreateExecution attempt; fire returns no other error.
FireReturnsNilUnlessIdentifierFails ==
    [][/\ lastFire'.retry # "none" => lastFire'.ret = "nil"
       /\ lastFire'.ret # "nil" =>
              /\ lastFire'.ret = "IdentifierError"
              /\ lastFire'.retry = "none"
              /\ lastFire'.attempts = 0
       /\ \A down \in FailChoices :
              (\/ cuTimes # <<>> /\ CatchUpSingleSchedule(TRUE, down)
               \/ \E cb \in inflight : LiveFire(cb, TRUE, down)) =>
                  /\ lastFire'.ret = "IdentifierError"
                  /\ executions' = executions
                  /\ snapshot' = snapshot]_vars

FireReturnedNilAfterExhaustedRetries ==
    /\ lastFire.id # 0
    /\ lastFire.retry = "Internal"
    /\ lastFire.attempts = Steps
    /\ lastFire.ret = "nil"
    /\ snapshot[lastFire.id] = lastFire.t

\* C12: a live-tick callback issues no CreateExecution for a schedule that
\* is inactive in the schedule repository at the time of the call, also
\* when its tick was delivered before a reconcile pass deregistered it.
LiveTickSuppressedAfterDeactivation ==
    (InLoop /\ lastFire.id # 0 /\ lastFire.attempts > 0) =>
        db[lastFire.id].active

\* C13 (as stated): Run never returns, whatever fails.
RunNeverReturns ==
    pc # "returned"

\* C13 (amended): Run returns only from its boot, with the error of the
\* first read of the schedules or of the catch-up; once the reconcile loop
\* is entered no step but the death of the process takes Run out of it,
\* whatever the repositories, the admin client and the registration return,
\* and the next step of the loop (the next schedule of the pass, the next
\* re-read) can always be taken.
LoopNeverReturns ==
    /\ [](pc = "sleep" => ENABLED SleepAndReRead(FALSE))
    /\ [](pc = "pass" => ENABLED ReconcileSchedule)
    /\ [][/\ (InLoop /\ pc' # "down") => InLoop'
          /\ pc' = "returned" => pc \in {"new", "catchup", "single", "returned"}]_vars

LoopSurvivedFailedReRead ==
    /\ pc = "sleep"
    /\ events >= 1
    /\ schedules = <<>>
    /\ \E id \in SchedIds : jobsMap[id].registered

\* C14: once the context passed to Run is cancelled, the sleep in progress
\* is the last one of the loop: the step that ends it makes no reconcile
\* pass and Run returns.
CancelExitsLoop ==
    [][(cancelled /\ \E dbErr \in BOOLEAN : SleepAndReRead(dbErr)) =>
           (pc' = "returned" /\ jobsMap' = jobsMap)]_vars

\* C15: a cycle of the checkpointer whose encoding succeeds fills the
\* buffer with the whole table of that moment, and when its CreateSnapShot
\* succeeds the latest row is that buffer, from which a fresh process reads
\* the table the cycle encoded, whatever the rows and the failures before
\* it; the table a process boots with is the one the latest row decodes to;
\* and while successful cycles keep coming, a non-empty watermark table is
\* eventually the table the latest row decodes to (or the process has died).
SnapshotDurable ==
    /\ [](pc = "new" => snapshot = readSnapShot(persisted, FALSE, snapShotVersion)
                        \/ snapshot = EmptySnapshot)
    /\ [][/\ (~IsEmpty(snapshot) /\ CheckPointStateWrite(FALSE)) =>
                 readSnapShot(buffer', FALSE, snapShotVersion) = snapshot
          /\ CheckPointStateSave(FALSE) =>
                 /\ persisted' = buffer
                 /\ readSnapShot(persisted', FALSE, snapShotVersion)
                        = readSnapShot(buffer, FALSE, snapShotVersion)]_vars
    /\ (cpRunning /\ ~IsEmpty(snapshot)) ~>
           (pc = "down" \/ readSnapShot(persisted, FALSE, snapShotVersion) = snapshot)

BootedFromLatestSnapshot ==
    /\ pc = "new"
    /\ events >= 1
    /\ ~IsEmpty(snapshot)
    /\ snapshot = readSnapShot(persisted, FALSE, snapShotVersion)
    /\ \E id \in SchedIds : snapshot[id] > 1

\* C16: no step changes the latest snapshot row while the watermark table
\* is empty, and no row encodes an empty table; a cycle that finds the table
\* empty leaves the buffer empty, so that no CreateSnapShot follows; a cycle
\* that finds it non-empty fills the buffer with what WriteSnapshot wrote,
\* and the one CreateSnapShot that follows, when it succeeds, leaves that
\* buffer as latest row and ends the cycle.
CheckpointerSkipsEmptyTable ==
    /\ [](persisted.complete => persisted.entries # {})
    /\ [](buffer # NoRow => ~IsEmpty(snapshot))
    /\ [][/\ IsEmpty(snapshot) => (persisted' = persisted /\ buffer' = NoRow)
          /\ \A writeErr \in BOOLEAN :
                 (~IsEmpty(snapshot) /\ CheckPointStateWrite(writeErr)) =>
                     /\ buffer' = WriteSnapshot(snapshot, writeErr).bytes
                     /\ persisted' = persisted
          /\ CheckPointStateSave(FALSE) =>
                 (persisted' = buffer /\ buffer' = NoRow)
          /\ CheckPointStateSave(TRUE) =>
                 (persisted' = persisted /\ buffer' = NoRow)]_vars

CheckpointerIdleOnEmptyTable ==
    /\ cpRunning
    /\ pc = "sleep"
    /\ IsEmpty(snapshot)
    /\ persisted = NoRow
    /\ buffer = NoRow
    /\ ENABLED CheckPointStateWrite(FALSE)
    /\ ~ENABLED CheckPointStateSave(FALSE)
    /\ \E id \in SchedIds : jobsMap[id].registered

\* C17: a construction of the executor in which the read of the latest row
\* fails, or the row cannot be decoded, ends with the executor built and an
\* empty watermark table; and a catch-up that starts with an empty table
\* fires, for every active schedule, the instants enumerated from its
\* UpdatedAt.
BootSurvivesSnapshotFailure ==
    /\ [][\A readErr \in BOOLEAN :
              (/\ NewWorkflowExecutor(readErr)
               /\ \/ readErr
                  \/ (persisted # NoRow /\ ReadSnapshot(persisted, snapShotVersion).err)) =>
                  (pc' = "new" /\ snapshot' = EmptySnapshot)]_vars
    /\ [](InCatchUp /\ IsEmpty(bootSnapshot) =>
            \A i \in 1..Len(schedules) :
                schedules[i].active =>
                    LET s == schedules[i]
                        fromUpdatedAt == Enumerate(s.id, s.updatedAt, catchUpTill)
                    IN /\ IsPrefix(FiredOf(s.id), fromUpdatedAt)
                       /\ (i < cuIdx => FiredOf(s.id) = fromUpdatedAt))

BootedEmptyFromUndecodableRow ==
    /\ pc = "caughtup"
    /\ IsEmpty(bootSnapshot)
    /\ persisted # NoRow
    /\ ReadSnapshot(persisted, snapShotVersion).err
    /\ fireLog # <<>>

\* C18 (as stated): the slice a re-read leaves for the next pass is the
\* one the pass before went over, not the rows just read.
ReconcileLagsOneCycle ==
    [][\A dbErr \in BOOLEAN :
           SleepAndReRead(dbErr) => schedules' = schedules]_vars

\* C18 (amended): the pass that follows a re-read goes over the slice just
\* read: a successful re-read replaces the slice by the rows of the
\* repository and starts a pass at its first element, the slice stays the
\* same until the pass is over, the pass skips no element of it, and when
\* the pass ends the registry agrees with every schedule of that slice.
PassIteratesSetJustRead ==
    [][/\ SleepAndReRead(FALSE) =>
              /\ schedules' = GetAll(db)
              /\ pc' = "pass"
              /\ passIdx' = 1
       /\ (pc = "pass" /\ pc' # "down") =>
              /\ schedules' = schedules
              /\ pc' = "pass" => passIdx' \in {passIdx, passIdx + 1}
       /\ (pc = "pass" /\ pc' = "sleep") =>
              \A i \in 1..Len(schedules) : AgreesWith(jobsMap', schedules[i])]_vars

DeactivationReconciledAtReRead ==
    /\ pc = "sleep"
    /\ IsEmpty(bootSnapshot)
    /\ \E i \in 1..Len(schedules) :
           /\ ~schedules[i].active
           /\ ~jobsMap[schedules[i].id].registered
           /\ snapshot[schedules[i].id] # ZeroTime

\* The names of the schedules of a slice.
NamesOf(scheds) == {scheds[i].id : i \in 1..Len(scheds)}

\* C19 (as stated): after a pass in which every Register succeeded, the
\* names registered are exactly the active schedules of the slice the pass
\* went over.
RegistryEqualsActiveSet ==
    (pc = "sleep" /\ \A i \in 1..Len(schedules) : schedules[i].expr = "ok") =>
        {id \in SchedIds : jobsMap[id].registered}
            = {schedules[i].id : i \in {j \in 1..Len(schedules) : schedules[j].active}}

\* C19 (amended): once a pass is done with a schedule of its slice, an
\* inactive one has no handle and an active one whose Register succeeds has
\* a handle made from it, until the next pass; an iteration of the pass
\* leaves the handle of every other name as it was, and a re-read leaves
\* every handle as it was.
RegistryAgreesWithIteratedSet ==
    /\ [](\A i \in 1..Len(schedules) :
              Reconciled(i) => AgreesWith(jobsMap, schedules[i]))
    /\ [][/\ ReconcileSchedule =>
                 \A id \in SchedIds \ {schedules[passIdx].id} :
                     jobsMap'[id] = jobsMap[id]
          /\ \A dbErr \in BOOLEAN :
                 SleepAndReRead(dbErr) => jobsMap' = jobsMap]_vars

RegistryHoldsActiveAndDropsInactive ==
    /\ pc = "sleep"
    /\ \E i, j \in 1..Len(schedules) :
           /\ schedules[i].active /\ jobsMap[schedules[i].id].registered
           /\ ~schedules[j].active /\ ~jobsMap[schedules[j].id].registered
           /\ db[schedules[j].id].updatedAt > 1

\* The rate-limit tokens the catch-up of this process run has taken so far:
\* one before each call of fire.
CatchUpTokensTaken == Len(fireLog)

\* C20: the CreateExecution calls issued so far by the process (at least
\* those of the call of fire just made) are at most the tokens taken so far
\* (during the catch-up, one for each call of fire made).
RateLimiterCapsAdminCalls ==
    (pc \in {"single", "returned"} /\ lastFire.id # 0) =>
        lastFire.attempts <= CatchUpTokensTaken

\* C21: a re-read that fails adds one to the read-failure counter, leaves
\* Run in its loop with no schedule to go over, so that no Register and no
\* DeRegister is called before the next re-read, and leaves the registry as
\* it was; a re-read that succeeds leaves the counter and starts a pass over
\* the rows read, at the end of which every inactive schedule of them has no
\* handle and every active one that can be registered has one.
FailedReReadKeepsRegistry ==
    [][/\ SleepAndReRead(TRUE) =>
              /\ readFailures' = readFailures + 1
              /\ pc' = "sleep"
              /\ schedules' = <<>>
              /\ jobsMap' = jobsMap
       /\ SleepAndReRead(FALSE) =>
              /\ readFailures' = readFailures
              /\ pc' = "pass"
              /\ schedules' = GetAll(db)
              /\ jobsMap' = jobsMap
       /\ (ReconcileSchedule /\ pc' = "sleep") =>
              /\ readFailures' = readFailures
              /\ \A i \in 1..Len(schedules') :
                     LET s == schedules'[i]
                     IN /\ ~s.active => ~jobsMap'[s.id].registered
                        /\ (s.active /\ s.expr = "ok") =>
                               (jobsMap'[s.id].registered /\ jobsMap'[s.id].active)]_vars

ReconciledAfterFailedReRead ==
    /\ pc = "sleep"
    /\ readFailures = 1
    /\ schedules # <<>>
    /\ \E id \in SchedIds : jobsMap[id].registered

\* C22: from the construction of the executor to the return of the
\* catch-up the checkpointer is not running, the registry is empty and no
\* callback is in flight; toTime is a time already past and bounds every
\* instant the catch-up fires; while the catch-up runs, the slice, toTime
\* and the latest snapshot row stay as they are; the checkpointer starts,
\* and the registry changes, only once the catch-up has returned nil.
BootOrdering ==
    /\ [](pc \in {"new", "read", "catchup", "single", "returned"} =>
            (~cpRunning /\ jobsMap = NoJobs /\ inflight = {}))
    /\ [](pc \in {"catchup", "single", "caughtup"} =>
            /\ catchUpTill <= now
            /\ \A k \in 1..Len(fireLog) : fireLog[k][2] <= catchUpTill)
    /\ [][/\ (pc \in {"read", "catchup", "single"} /\ pc' # "down") =>
                 /\ schedules' = schedules
                 /\ persisted' = persisted
          /\ (pc \in {"catchup", "single"} /\ pc' # "down") =>
                 catchUpTill' = catchUpTill
          /\ (cpRunning' /\ ~cpRunning) => pc = "caughtup"
          /\ jobsMap' # jobsMap => (InLoop /\ cpRunning)]_vars

CatchUpInProgressNothingWritten ==
    /\ pc = "single"
    /\ fireLog # <<>>
    /\ now > catchUpTill
    /\ ~IsEmpty(snapshot)
    /\ persisted = NoRow
    /\ ~cpRunning
    /\ jobsMap = NoJobs

\* C23: a panic of the checkpointer leaves the control loop of Run where it
\* is, with its slice, its registry and its pending callbacks.
PanicLeavesLoopRunning ==
    [][CheckPointerPanic =>
          /\ pc' = pc
          /\ schedules' = schedules
          /\ jobsMap' = jobsMap
          /\ inflight' = inflight]_vars

\* C24: the latest snapshot row, when there is one, holds the complete
\* output of a WriteSnapshot call that returned no error.
OnlySuccessfulEncodingsAppended ==
    persisted # NoRow => persisted.complete

\* C25: within one process run every instant the catch-up fired is at most
\* catchUpTill, and every instant of the live path (the next instant of a
\* registered job, the instant of a pending callback, the instant of a live
\* fire) is later than catchUpTill and is no instant the catch-up fired for
\* that schedule.
CatchUpAndLiveDisjoint ==
    /\ \A k \in 1..Len(fireLog) : fireLog[k][2] <= catchUpTill
    /\ \A id \in SchedIds : jobsMap[id].registered => jobsMap[id].next > catchUpTill
    /\ \A cb \in inflight :
          /\ cb.t > catchUpTill
          /\ \A k \in 1..Len(fireLog) : fireLog[k] # <<cb.id, cb.t>>
    /\ (InLoop /\ lastFire.id # 0) =>
          /\ lastFire.t > catchUpTill
          /\ \A k \in 1..Len(fireLog) : fireLog[k] # <<lastFire.id, lastFire.t>>

LiveFireAfterCatchUpOfSameSchedule ==
    /\ pc = "sleep"
    /\ lastFire.id # 0
    /\ lastFire.t > catchUpTill
    /\ \E k \in 1..Len(fireLog) : fireLog[k][1] = lastFire.id
    /\ Accepted(lastFire.id, lastFire.t)

\* C26: while the process runs, a step changes the watermark entry of a
\* name only when it is a catch-up fire of the schedule of that name that
\* returned nil, or the last statement of a live callback of that schedule
\* whose fire returned nil, and then the entry is the instant fired; every
\* other entry stays as it is, and an entry that is present stays present.
FireTouchesOwnEntryOnly ==
    [][(pc # "down" /\ pc' # "down") =>
          \A id \in SchedIds :
             /\ snapshot'[id] # snapshot[id] =>
                   \/ /\ pc = "single"
                      /\ lastFire'.id # 0
                      /\ GetScheduleName(lastFire') = id
                      /\ lastFire'.ret = "nil"
                      /\ snapshot'[id] = lastFire'.t
                   \/ \E cb \in inflight :
                         /\ LiveUpdate(cb)
                         /\ GetScheduleName(cb) = id
                         /\ cb.ret = "nil"
                         /\ snapshot'[id] = cb.t
             /\ snapshot[id] # ZeroTime => snapshot'[id] # ZeroTime]_vars

FiredBesideAnotherEntry ==
    \E a, b \in SchedIds :
       /\ a # b
       /\ pc = "sleep"
       /\ snapshot[a] > catchUpTill
       /\ Accepted(a, snapshot[a])
       /\ snapshot[b] # ZeroTime
       /\ snapshot[b] # snapshot[a]
====
